---- MODULE Spec2Model ----
(***************************************************************************)
(* A model of wjx_to_docx.py: parse_survey and the extractors it calls,    *)
(* fetch_html and the renderers; and of the batch run of app_gradio.py.    *)
(*                                                                         *)
(* Text is modelled as a sequence of tokens (a free monoid): "" is <<>>,   *)
(* concatenation is \o, a character or a literal is one token.  The        *)
(* Chinese literals of the source are written as ASCII tokens; the comment *)
(* next to each gives the literal it stands for.                           *)
(***************************************************************************)
EXTENDS Integers, Sequences, FiniteSets, TLC

\* ------------------------------------------------------------------ bounds
MaxNodes == 4        \* div nodes inside #divQuestion of an open document
MaxGatedNodes == 1   \* div nodes inside #divQuestion of a gated document
MaxKw == 2           \* gating keywords occurring in one document
MaxClock == 2        \* distinct readings of datetime.now()
MaxReparseNodes == 3 \* div nodes of a document that is parsed twice
MaxBuildQuestions == 2   \* questions handed to build_sections directly
MaxBuildNames == 3       \* names handed to build_sections directly
MaxLabels == 2       \* .label elements of a question node
MaxAnchors == 2      \* a[val] elements of a scale question
MaxRows == 2         \* tr rows of a matrix table
MaxCells == 2        \* th/td cells of a table row
MaxHeaderCells == 3  \* th/td cells of the header row of a ratings table
MaxDataRows == 4     \* tr rows below the header row of a ratings table
MaxTopicNodes == 3   \* div nodes of a document whose topic attributes vary
MaxUrls == 3         \* links handed to one batch run
MaxInputs == 2       \* input/option elements of a question node
MaxSignals == 5      \* script variables taken as global logic signals
MaxExportNodes == 3  \* div nodes of a document whose Survey is written out
MaxRetries == 2      \* the retries argument of fetch_html

\* --------------------------------------------------------------- constants
EXIT_INVALID_ARGS == 1
EXIT_NETWORK == 2
EXIT_PARSE == 3
EXIT_DOCX == 4

\* Optional values: Python's None (also: a tag select_one did not find, an
\* attribute the node lacks, a local not assigned yet) is None, a present
\* value v is Some(v).
None == <<>>
Some(v) == <<v>>
Val(o) == o[1]

\* Section.name default, Question.section default: "题目列表"
DEFAULT_SECTION == <<"[question-list]">>

\* --------------------------------------------------------- text primitives
Ws == {" ", "\n"}
Digits == <<"0", "1", "2", "3", "4", "5", "6", "7", "8", "9">>
IsDigit(c) == \E i \in 1..10 : Digits[i] = c
DigitVal(c) == (CHOOSE i \in 1..10 : Digits[i] = c) - 1

RECURSIVE LStrip(_)
LStrip(s) ==
    IF s = <<>> THEN <<>>
    ELSE IF Head(s) \in Ws THEN LStrip(Tail(s)) ELSE s

RECURSIVE RStrip(_)
RStrip(s) ==
    IF s = <<>> THEN <<>>
    ELSE IF s[Len(s)] \in Ws THEN RStrip(SubSeq(s, 1, Len(s) - 1)) ELSE s

\* re.sub(r"\s+", " ", text): every maximal run of whitespace becomes one " "
RECURSIVE CollapseWs(_)
CollapseWs(s) ==
    IF s = <<>> THEN <<>>
    ELSE IF Head(s) \in Ws THEN <<" ">> \o CollapseWs(LStrip(Tail(s)))
    ELSE <<Head(s)>> \o CollapseWs(Tail(s))

normalize_text(text) == RStrip(LStrip(CollapseWs(text)))

\* tag is None (no such element) or Some(the text get_text() yields for it)
tag_text(tag) == IF tag = None THEN <<>> ELSE normalize_text(Val(tag))

RECURSIVE unique_keep_order(_)
unique_keep_order(items) ==
    IF items = <<>> THEN <<>>
    ELSE LET init == unique_keep_order(SubSeq(items, 1, Len(items) - 1))
             last == items[Len(items)]
         IN  IF \E i \in 1..Len(init) : init[i] = last THEN init
             ELSE Append(init, last)

\* sep.join(parts)
RECURSIVE Join(_, _)
Join(sep, parts) ==
    IF parts = <<>> THEN <<>>
    ELSE IF Len(parts) = 1 THEN parts[1]
    ELSE parts[1] \o sep \o Join(sep, Tail(parts))

\* str(n) for n >= 0, in decimal
RECURSIVE IntToStr(_)
IntToStr(n) ==
    IF n < 10 THEN <<Digits[n + 1]>>
    ELSE IntToStr(n \div 10) \o <<Digits[(n % 10) + 1]>>

\* int(s) for a string of decimal digits
RECURSIVE StrToInt(_)
StrToInt(s) ==
    IF s = <<>> THEN 0
    ELSE StrToInt(SubSeq(s, 1, Len(s) - 1)) * 10 + DigitVal(s[Len(s)])

\* the part of s matched by the first (\d+): the leftmost maximal digit run
RECURSIVE DigitPrefix(_)
DigitPrefix(s) ==
    IF s = <<>> \/ ~IsDigit(Head(s)) THEN <<>>
    ELSE <<Head(s)>> \o DigitPrefix(Tail(s))

RECURSIVE FirstDigitRun(_)
FirstDigitRun(s) ==
    IF s = <<>> THEN <<>>
    ELSE IF IsDigit(Head(s)) THEN DigitPrefix(s)
    ELSE FirstDigitRun(Tail(s))

\* raw is None (no topic attribute) or Some(the attribute's value)
parse_topic_id(raw) ==
    IF raw = None \/ Val(raw) = <<>> THEN None
    ELSE IF FirstDigitRun(Val(raw)) = <<>> THEN None
    ELSE Some(StrToInt(FirstDigitRun(Val(raw))))

\* 填空 / 单选 / 多选 / 量表 / 矩阵量表 / 未知类型(code or N/A)
map_qtype(type_code) ==
    IF type_code = <<"1">> THEN <<"[fill-in]">>
    ELSE IF type_code = <<"3">> THEN <<"[single-choice]">>
    ELSE IF type_code = <<"4">> THEN <<"[multi-choice]">>
    ELSE IF type_code = <<"5">> THEN <<"[scale]">>
    ELSE IF type_code = <<"6">> THEN <<"[matrix-scale]">>
    ELSE <<"[unknown-type]", "(">>
             \o (IF type_code = <<>> THEN <<"N/A">> ELSE type_code) \o <<")">>

\* ------------------------------------------------------ restriction check
\* keyword_reasons, in the dict's insertion order:
\*   验证码, 滑块验证, 请输入访问密码, 请先登录, 访问过于频繁
Keywords == <<"captcha", "slider", "password-prompt", "login", "rate-limit">>
KeywordSet == {Keywords[i] : i \in 1..Len(Keywords)}
keyword_reasons(k) == <<"[detected]", k>>
\* 检测到密码输入框，当前版本不支持密码问卷。
PASSWORD_INPUT_REASON == <<"[detected]", "password-input">>

\* check_restricted_page without the search for a password input
check_restricted_page_keywords_only(html) ==
    IF \E i \in 1..Len(Keywords) : Keywords[i] \in html.kw
    THEN Some(keyword_reasons(
            Keywords[CHOOSE i \in 1..Len(Keywords) :
                        /\ Keywords[i] \in html.kw
                        /\ \A j \in 1..(i - 1) : Keywords[j] \notin html.kw]))
    ELSE None

\* html.kw: the keywords that occur in html.lower();
\* html.pwInput: whether re.search finds an <input ... type="password">
check_restricted_page(html) ==
    IF \E i \in 1..Len(Keywords) : Keywords[i] \in html.kw
    THEN Some(keyword_reasons(
            Keywords[CHOOSE i \in 1..Len(Keywords) :
                        /\ Keywords[i] \in html.kw
                        /\ \A j \in 1..(i - 1) : Keywords[j] \notin html.kw]))
    ELSE IF html.pwInput THEN Some(PASSWORD_INPUT_REASON)
    ELSE None

\* ------------------------------------------------------- node predicates
is_cutfield(node) == "cutfield" \in node.class
is_question_field(node) ==
    "field" \in node.class /\ "ui-field-contain" \in node.class

\* -------------------------------------------------------- option extractors
\* A question node carries, for the selectors the extractors use:
\*   labels   the elements matching ".label" in document order, each with the
\*            marker classes of its ancestors inside the node (wrap) and its text
\*   scaleFirst, scaleLast   text of .scaleTitle_frist / .scaleTitle_last, or None
\*   anchors  the a[val] elements under .scale-rating / .scale-div
\*   table    None, or Some of the tr rows of table.matrix-rating / table.matrixtable,
\*            each row the texts of its th/td cells

SEP == <<";">>        \* "；"
COMMA == <<",">>      \* "，"
NL == <<"\n">>

NO_RADIO_OPTIONS == <<"[single-choice: no options extracted]">>     \* （单选题，未提取到选项）
NO_CHECKBOX_OPTIONS == <<"[multi-choice: no options extracted]">>   \* （多选题，未提取到选项）
TEXT_INPUT == <<"[text input]">>                                    \* （文本输入）
NO_SCALE_TEXT == <<"[scale: no anchor text extracted]">>            \* （量表题，未提取到刻度文本）
NO_MATRIX_TABLE == <<"[matrix: no table structure extracted]">>     \* （矩阵题，未提取到表格结构）
EMPTY_MATRIX_TABLE == <<"[matrix: table is empty]">>                \* （矩阵题，表格内容为空）
NO_MATRIX_LABELS == <<"[matrix: no row or column text extracted]">> \* （矩阵题，未提取到有效行列文本）
NO_OPTIONS == <<"[no options or open question]">>                   \* （无选项或开放题）

IsNonEmpty(t) == t # <<>>

MatchesSelector(label, selector) ==
    IF selector = ".ui-radio .label" THEN "ui-radio" \in label.wrap
    ELSE IF selector = ".ui-checkbox .label" THEN "ui-checkbox" \in label.wrap
    ELSE TRUE   \* ".label"

\* extract_option_labels without the "if text" test
extract_option_labels_keeping_empty(node, selector) ==
    LET selected == SelectSeq(node.labels, LAMBDA l : MatchesSelector(l, selector))
        texts == [i \in 1..Len(selected) |-> tag_text(Some(selected[i].text))]
    IN  unique_keep_order(texts)

extract_option_labels(node, selector) ==
    LET selected == SelectSeq(node.labels, LAMBDA l : MatchesSelector(l, selector))
        texts == [i \in 1..Len(selected) |-> tag_text(Some(selected[i].text))]
    IN  unique_keep_order(SelectSeq(texts, IsNonEmpty))

AnchorText(anchor) ==
    LET val == normalize_text(anchor.val)
        title == IF normalize_text(anchor.title) # <<>>
                 THEN normalize_text(anchor.title)
                 ELSE normalize_text(anchor.htitle)
    IN  IF val = <<>> THEN <<>>          \* continue: nothing is appended
        ELSE IF title # <<>> THEN val \o <<"(">> \o title \o <<")">>
        ELSE val

extract_scale_options(node) ==
    LET left == tag_text(node.scaleFirst)
        right == tag_text(node.scaleLast)
        all == [i \in 1..Len(node.anchors) |-> AnchorText(node.anchors[i])]
        anchors == unique_keep_order(SelectSeq(all, IsNonEmpty))
        \* 范围: left -> right
        rangeLine == IF left # <<>> \/ right # <<>>
                     THEN << <<"[range]: ">> \o (IF left # <<>> THEN left ELSE <<"-">>)
                             \o <<" -> ">>
                             \o (IF right # <<>> THEN right ELSE <<"-">>) >>
                     ELSE <<>>
        \* 刻度: a，b
        anchorLine == IF anchors # <<>>
                      THEN << <<"[anchors]: ">> \o Join(COMMA, anchors) >>
                      ELSE <<>>
        lines == rangeLine \o anchorLine
    IN  IF lines # <<>> THEN Join(NL, lines) ELSE NO_SCALE_TEXT

extract_matrix_options_dropping_first_header(node) ==
    IF node.table = None THEN NO_MATRIX_TABLE
    ELSE IF Val(node.table) = <<>> THEN EMPTY_MATRIX_TABLE
    ELSE
      LET rows == Val(node.table)
          cellTexts == [i \in 1..Len(rows[1]) |-> tag_text(Some(rows[1][i]))]
          dropped == IF cellTexts # <<>> THEN Tail(cellTexts) ELSE cellTexts
          headers == SelectSeq(dropped, IsNonEmpty)
          rest == Tail(rows)
          firsts == [i \in 1..Len(rest) |->
                        IF rest[i] = <<>> THEN <<>> ELSE tag_text(Some(rest[i][1]))]
          row_labels == SelectSeq(firsts, IsNonEmpty)
          colLine == IF headers # <<>>
                     THEN << <<"[columns]: ">> \o Join(<<" | ">>, headers) >>
                     ELSE <<>>
          rowLine == IF row_labels # <<>>
                     THEN << <<"[rows]: ">> \o Join(SEP, row_labels) >>
                     ELSE <<>>
          lines == colLine \o rowLine
      IN  IF lines # <<>> THEN Join(NL, lines) ELSE NO_MATRIX_LABELS

extract_matrix_options(node) ==
    IF node.table = None THEN NO_MATRIX_TABLE
    ELSE IF Val(node.table) = <<>> THEN EMPTY_MATRIX_TABLE
    ELSE
      LET rows == Val(node.table)
          cellTexts == [i \in 1..Len(rows[1]) |-> tag_text(Some(rows[1][i]))]
          dropped == IF cellTexts # <<>> /\ cellTexts[1] = <<>>
                     THEN Tail(cellTexts) ELSE cellTexts
          headers == SelectSeq(dropped, IsNonEmpty)
          rest == Tail(rows)
          firsts == [i \in 1..Len(rest) |->
                        IF rest[i] = <<>> THEN <<>> ELSE tag_text(Some(rest[i][1]))]
          row_labels == SelectSeq(firsts, IsNonEmpty)
          \* 列: a | b
          colLine == IF headers # <<>>
                     THEN << <<"[columns]: ">> \o Join(<<" | ">>, headers) >>
                     ELSE <<>>
          \* 行: a；b
          rowLine == IF row_labels # <<>>
                     THEN << <<"[rows]: ">> \o Join(SEP, row_labels) >>
                     ELSE <<>>
          lines == colLine \o rowLine
      IN  IF lines # <<>> THEN Join(NL, lines) ELSE NO_MATRIX_LABELS

ChoiceText(labels, placeholder) ==
    IF labels # <<>> THEN Join(SEP, labels) ELSE placeholder

extract_options(node, type_code) ==
    IF type_code = <<"3">>
    THEN ChoiceText(extract_option_labels(node, ".ui-radio .label"), NO_RADIO_OPTIONS)
    ELSE IF type_code = <<"4">>
    THEN ChoiceText(extract_option_labels(node, ".ui-checkbox .label"), NO_CHECKBOX_OPTIONS)
    ELSE IF type_code = <<"1">> THEN TEXT_INPUT
    ELSE IF type_code = <<"5">> THEN extract_scale_options(node)
    ELSE IF type_code = <<"6">> THEN extract_matrix_options(node)
    ELSE ChoiceText(extract_option_labels(node, ".label"), NO_OPTIONS)

\* ---------------------------------------------------------- logic signals
LowerCase == <<"a", "b", "c", "d", "e", "f", "g", "h", "i", "j", "k", "l", "m",
               "n", "o", "p", "q", "r", "s", "t", "u", "v", "w", "x", "y", "z">>
UpperCase == <<"A", "B", "C", "D", "E", "F", "G", "H", "I", "J", "K", "L", "M",
               "N", "O", "P", "Q", "R", "S", "T", "U", "V", "W", "X", "Y", "Z">>
LowerChar(c) ==
    IF \E i \in 1..26 : UpperCase[i] = c
    THEN LowerCase[CHOOSE i \in 1..26 : UpperCase[i] = c] ELSE c
Lower(s) == [i \in 1..Len(s) |-> LowerChar(s[i])]

\* needle in hay
Contains(hay, needle) ==
    \E i \in 1..(Len(hay) - Len(needle) + 1) :
        SubSeq(hay, i, i + Len(needle) - 1) = needle

ELLIPSIS == <<".", ".", ".">>
truncate(text, max_len) ==
    LET t == normalize_text(text)
    IN  IF Len(t) <= max_len THEN t
        ELSE SubSeq(t, 1, max_len - 3) \o ELLIPSIS

REL == <<"r", "e", "l">>
JUMP == <<"j", "u", "m", "p">>
LOGIC == <<"l", "o", "g", "i", "c">>
SKIP == <<"s", "k", "i", "p">>
DISPLAY == <<"d", "i", "s", "p", "l", "a", "y">>
COND == <<"c", "o", "n", "d">>
CONDITION == COND \o <<"i", "t", "i", "o", "n">>
NameKeywords == {REL, JUMP, LOGIC, SKIP, DISPLAY, COND}
ValueKeywords == {REL, JUMP, LOGIC, SKIP, DISPLAY, CONDITION}
SIGNAL_VALUE_LEN == 140
CANDIDATE_VALUE_LEN == 70

\* signals[name] = value on a dict: a known key keeps its place
DictSet(signals, name, value) ==
    IF \E i \in 1..Len(signals) : signals[i].name = name
    THEN [i \in 1..Len(signals) |->
            IF signals[i].name = name THEN [name |-> name, value |-> value]
            ELSE signals[i]]
    ELSE Append(signals, [name |-> name, value |-> value])

\* html.vars: the (name, value) pairs pattern.findall(html) returns, in order
RECURSIVE SignalsOf(_)
SignalsOf(vars) ==
    IF vars = <<>> THEN <<>>
    ELSE LET before == SignalsOf(SubSeq(vars, 1, Len(vars) - 1))
             v == vars[Len(vars)]
         IN  IF \/ \E k \in NameKeywords : Contains(Lower(v.name), k)
                \/ \E k \in ValueKeywords : Contains(Lower(v.value), k)
             THEN DictSet(before, v.name, truncate(v.value, SIGNAL_VALUE_LEN))
             ELSE before

extract_global_logic_signals(html) == SignalsOf(html.vars)

question_attrs == <<"relation", "jumpto", "skipto", "rely", "cond", "condition",
                    "showcond", "hidecond", "display">>
HIDDEN_NOTE == <<"[initially hidden (style=display:none)]">>  \* 题目初始隐藏（style=display:none）
NO_LOGIC == <<"[no explicit logic detected]">>                \* 未检测到显式逻辑
UNKNOWN_OPTION == <<"[unknown option]">>                      \* 未知选项
DISPLAY_NONE == DISPLAY \o <<":", "n", "o", "n", "e">>
MAX_NOTES == 8
MAX_SIGNALS_WITH_NOTES == 3
MAX_SIGNALS_ALONE == 4

\* node.attrs[a] is the attribute's value, "" when the node lacks it
AttrNotes(node) ==
    LET one(a) == IF normalize_text(node.attrs[a]) # <<>>
                  \* 题属性 attr=value
                  THEN << <<"[question-attr] ", a, "=">> \o normalize_text(node.attrs[a]) >>
                  ELSE <<>>
        RECURSIVE upto(_)
        upto(n) == IF n = 0 THEN <<>> ELSE upto(n - 1) \o one(question_attrs[n])
    IN  upto(Len(question_attrs))

StyleNotes(node) ==
    LET style == SelectSeq(Lower(normalize_text(node.style)), LAMBDA c : c # " ")
    IN  IF Contains(style, DISPLAY_NONE) THEN <<HIDDEN_NOTE>> ELSE <<>>

\* the digits after the first "q" (any case) that is followed by a digit
RECURSIVE QDigits(_)
QDigits(rel) ==
    IF Len(rel) < 2 THEN <<>>
    ELSE IF LowerChar(rel[1]) = "q" /\ IsDigit(rel[2]) THEN DigitPrefix(Tail(rel))
    ELSE QDigits(Tail(rel))

\* node.inputs: the descendants matching "input, option", in document order
InputNotes(input_tag) ==
    LET id == normalize_text(input_tag.id)
        name == normalize_text(input_tag.name)
        value == normalize_text(input_tag.value)
        opt_id == IF id # <<>> THEN id
                  ELSE IF name # <<>> THEN name
                  ELSE IF value # <<>> THEN value
                  ELSE UNKNOWN_OPTION
        jumpto == normalize_text(input_tag.jumpto)
        rel == normalize_text(input_tag.rel)
        \* （可能关联题 N）
        guess == IF QDigits(rel) # <<>>
                 THEN <<"[maybe linked to question ">> \o QDigits(rel) \o <<"]">>
                 ELSE <<>>
    IN  \* 选项 X 跳转到 Y
        (IF jumpto # <<>>
         THEN << <<"[option] ">> \o opt_id \o <<" [jumps to] ">> \o jumpto >>
         ELSE <<>>)
        \* 选项 X 触发关联字段 R
        \o (IF rel # <<>>
            THEN << <<"[option] ">> \o opt_id \o <<" [triggers relation] ">> \o rel \o guess >>
            ELSE <<>>)

RECURSIVE AllInputNotes(_)
AllInputNotes(inputs) ==
    IF inputs = <<>> THEN <<>>
    ELSE InputNotes(Head(inputs)) \o AllInputNotes(Tail(inputs))

TopicSignals(topic_id, global_signals) ==
    IF topic_id = None THEN <<>>
    ELSE LET q_key == Lower(<<"q">> \o IntToStr(Val(topic_id)))
             u_key == <<"_">> \o IntToStr(Val(topic_id))
             hit(sig) == \/ Contains(Lower(sig.value), q_key)
                         \/ Contains(Lower(sig.value), u_key)
             hits == SelectSeq(global_signals, hit)
         IN  [i \in 1..Len(hits) |->
                hits[i].name \o <<"=">> \o truncate(hits[i].value, CANDIDATE_VALUE_LEN)]

Take(s, n) == SubSeq(s, 1, IF Len(s) < n THEN Len(s) ELSE n)

\* the composition with the cut to MAX_NOTES made before the candidate note
\* is appended
extract_logic_notes_cut_before_extra(node, topic_id, global_signals) ==
    LET explicit == AttrNotes(node) \o StyleNotes(node) \o AllInputNotes(node.inputs)
        topic_signals == TopicSignals(topic_id, global_signals)
        notes == unique_keep_order(explicit)
    IN  IF notes # <<>>
        THEN LET extra == IF topic_signals # <<>>
                          THEN << <<"[candidate script markers]: ">>
                                  \o Join(SEP, unique_keep_order(
                                        Take(topic_signals, MAX_SIGNALS_WITH_NOTES))) >>
                          ELSE <<>>
             IN  Join(SEP, Take(notes, MAX_NOTES) \o extra)
        ELSE IF topic_signals # <<>>
        THEN <<"[candidate logic markers]: ">>
                \o Join(SEP, unique_keep_order(Take(topic_signals, MAX_SIGNALS_ALONE)))
                \o <<" [no parsable jump rule]">>
        ELSE NO_LOGIC

extract_logic_notes(node, topic_id, global_signals) ==
    LET explicit == AttrNotes(node) \o StyleNotes(node) \o AllInputNotes(node.inputs)
        topic_signals == TopicSignals(topic_id, global_signals)
        notes == unique_keep_order(explicit)
    IN  IF notes # <<>>
        THEN LET \* 候选脚本标记: a；b
                 extra == IF topic_signals # <<>>
                          THEN << <<"[candidate script markers]: ">>
                                  \o Join(SEP, unique_keep_order(
                                        Take(topic_signals, MAX_SIGNALS_WITH_NOTES))) >>
                          ELSE <<>>
             IN  Join(SEP, Take(notes \o extra, MAX_NOTES))
        ELSE IF topic_signals # <<>>
        \* 存在候选逻辑标记：a；b（未形成可解析跳题规则）
        THEN <<"[candidate logic markers]: ">>
                \o Join(SEP, unique_keep_order(Take(topic_signals, MAX_SIGNALS_ALONE)))
                \o <<" [no parsable jump rule]">>
        ELSE NO_LOGIC

\* ---------------------------------------------------------------- questions
NO_STEM == <<"[stem not recognised]">>     \* （未识别题干）

parse_question(node, display_index, section_name, global_signals) ==
    LET topic_id == parse_topic_id(node.topic)
        type_code == normalize_text(node.type)
        required_attr == normalize_text(node.req) = <<"1">>
        required_star == node.reqStar
        stem == IF tag_text(node.topichtml) # <<>>
                THEN tag_text(node.topichtml) ELSE NO_STEM
    IN  [index |-> display_index,
         topic_id |-> topic_id,
         display_no |-> IntToStr(display_index),
         qtype |-> map_qtype(type_code),
         required |-> required_attr \/ required_star,
         stem |-> stem,
         options |-> extract_options(node, type_code),
         logic_notes |-> extract_logic_notes(node, topic_id, global_signals),
         section |-> section_name]

\* ----------------------------------------------------------------- sections
Min(S) == CHOOSE x \in S : \A y \in S : x <= y
Max(S) == CHOOSE x \in S : \A y \in S : x >= y

Section(name, start_topic, end_topic) ==
    [name |-> name, start_topic |-> start_topic, end_topic |-> end_topic]

\* the topic ids build_sections collects for one name
TopicsOf(questions, name) ==
    {Val(questions[i].topic_id) : i \in
        {j \in 1..Len(questions) :
            questions[j].section = name /\ questions[j].topic_id # None}}

\* the for loop of build_sections over ordered_names
RECURSIVE SectionLoop(_, _)
SectionLoop(questions, ordered_names) ==
    IF ordered_names = <<>> THEN <<>>
    ELSE LET before == SectionLoop(questions,
                           SubSeq(ordered_names, 1, Len(ordered_names) - 1))
             name == ordered_names[Len(ordered_names)]
             topics == TopicsOf(questions, name)
         IN  IF topics = {} /\ name # DEFAULT_SECTION THEN before
             ELSE Append(before,
                    Section(name,
                            IF topics # {} THEN Some(Min(topics)) ELSE None,
                            IF topics # {} THEN Some(Max(topics)) ELSE None))

IsUnrangedDefault(s) ==
    s.name = DEFAULT_SECTION /\ s.start_topic = None /\ s.end_topic = None

\* build_sections without the "if not sections" fallback
build_sections_without_fallback(questions, ordered_names) ==
    LET sections == SectionLoop(questions, ordered_names)
    IN  IF Len(sections) > 1
        THEN SelectSeq(sections, LAMBDA s : ~IsUnrangedDefault(s))
        ELSE sections

\* build_sections with min and max exchanged
build_sections_swapped_range(questions, ordered_names) ==
    LET looped == SectionLoop(questions, ordered_names)
        swapped == [i \in 1..Len(looped) |->
                      Section(looped[i].name, looped[i].end_topic, looped[i].start_topic)]
        sections == IF swapped = <<>>
                    THEN <<Section(DEFAULT_SECTION, None, None)>> ELSE swapped
    IN  IF Len(sections) > 1
        THEN SelectSeq(sections, LAMBDA s : ~IsUnrangedDefault(s))
        ELSE sections

build_sections(questions, ordered_names) ==
    LET looped == SectionLoop(questions, ordered_names)
        sections == IF looped = <<>>
                    THEN <<Section(DEFAULT_SECTION, None, None)>> ELSE looped
    IN  IF Len(sections) > 1
        THEN SelectSeq(sections, LAMBDA s : ~IsUnrangedDefault(s))
        ELSE sections

\* -------------------------------------------------- title and description
DEFAULT_TITLE == <<"[survey export]">>     \* 问卷导出

\* soup.htitle, soup.titleTag: select_one("#htitle"), soup.title
TitleOf(soup) ==
    IF tag_text(soup.htitle) # <<>> THEN tag_text(soup.htitle)
    ELSE IF tag_text(soup.titleTag) # <<>> THEN tag_text(soup.titleTag)
    ELSE DEFAULT_TITLE

\* soup.descNodes[i]: select_one of the i-th candidate selector
\* (#divDesc, #desc, .desc_begin, .description, .survey-desc);
\* soup.metaDesc: the content of meta[property='og:description']
extract_description(soup) ==
    IF \E i \in 1..Len(soup.descNodes) : tag_text(soup.descNodes[i]) # <<>>
    THEN tag_text(soup.descNodes[
            CHOOSE i \in 1..Len(soup.descNodes) :
                /\ tag_text(soup.descNodes[i]) # <<>>
                /\ \A j \in 1..(i - 1) : tag_text(soup.descNodes[j]) = <<>>])
    ELSE IF soup.metaDesc # None /\ Val(soup.metaDesc) # <<>>
    THEN normalize_text(Val(soup.metaDesc))
    ELSE <<>>

\* datetime.now().strftime(...) of the clock reading t
FormatTime(t) == <<"T">> \o IntToStr(t)

\* ------------------------------------------------------------ the traversal
\* The locals the loop of parse_survey updates.
LoopState(ordered_names, current_section, questions, display_index) ==
    [ordered_names |-> ordered_names, current_section |-> current_section,
     questions |-> questions, display_index |-> display_index]

InList(x, list) == \E i \in 1..Len(list) : list[i] = x

\* section_name = tag_text(node.find("div")) or tag_text(node)
SectionNameOf(node) ==
    IF tag_text(node.firstDiv) # <<>> THEN tag_text(node.firstDiv)
    ELSE tag_text(Some(node.text))

\* VisitNode with the counter incremented before the divider test
VisitNode_counting_dividers(st, node, global_signals) ==
    LET counted == [st EXCEPT !.display_index = st.display_index + 1]
    IN  IF is_cutfield(node)
        THEN LET section_name == SectionNameOf(node)
             IN  IF section_name # <<>>
                 THEN [counted EXCEPT !.current_section = section_name,
                                      !.ordered_names =
                                          IF InList(section_name, st.ordered_names)
                                          THEN st.ordered_names
                                          ELSE Append(st.ordered_names, section_name)]
                 ELSE counted
        ELSE IF is_question_field(node)
        THEN [counted EXCEPT !.questions = Append(st.questions,
                                parse_question(node, counted.display_index,
                                               st.current_section, global_signals))]
        ELSE st

\* one iteration of "for node in nodes"
\* a traversal in which a divider without a name leads back to the default
\* section
VisitNode_unnamed_divider_resets(st, node, global_signals) ==
    IF is_cutfield(node)
    THEN LET section_name == SectionNameOf(node)
         IN  IF section_name # <<>>
             THEN [st EXCEPT !.current_section = section_name,
                             !.ordered_names =
                                 IF InList(section_name, st.ordered_names)
                                 THEN st.ordered_names
                                 ELSE Append(st.ordered_names, section_name)]
             ELSE [st EXCEPT !.current_section = DEFAULT_SECTION]
    ELSE IF is_question_field(node)
    THEN [st EXCEPT !.display_index = st.display_index + 1,
                    !.questions = Append(st.questions,
                        parse_question(node, st.display_index + 1,
                                       st.current_section, global_signals))]
    ELSE st

\* a traversal that passes over a question node whose topic id is null
VisitNode_skipping_untopiced(st, node, global_signals) ==
    IF is_cutfield(node)
    THEN LET section_name == SectionNameOf(node)
         IN  IF section_name # <<>>
             THEN [st EXCEPT !.current_section = section_name,
                             !.ordered_names =
                                 IF InList(section_name, st.ordered_names)
                                 THEN st.ordered_names
                                 ELSE Append(st.ordered_names, section_name)]
             ELSE st
    ELSE IF is_question_field(node) /\ parse_topic_id(node.topic) # None
    THEN [st EXCEPT !.display_index = st.display_index + 1,
                    !.questions = Append(st.questions,
                        parse_question(node, st.display_index + 1,
                                       st.current_section, global_signals))]
    ELSE st

VisitNode(st, node, global_signals) ==
    IF is_cutfield(node)
    THEN LET section_name == SectionNameOf(node)
         IN  IF section_name # <<>>
             THEN [st EXCEPT !.current_section = section_name,
                             !.ordered_names =
                                 IF InList(section_name, st.ordered_names)
                                 THEN st.ordered_names
                                 ELSE Append(st.ordered_names, section_name)]
             ELSE st
    ELSE IF is_question_field(node)
    THEN [st EXCEPT !.display_index = st.display_index + 1,
                    !.questions = Append(st.questions,
                        parse_question(node, st.display_index + 1,
                                       st.current_section, global_signals))]
    ELSE st

\* Survey(...) with crawl_time and source_url in each other's place
Survey_time_as_url(title, description, source_url, crawl_time, sections, questions) ==
    [title |-> title, description |-> description, source_url |-> crawl_time,
     crawl_time |-> source_url, sections |-> sections, questions |-> questions]

\* Survey(title=..., ..., questions=...)
Survey(title, description, source_url, crawl_time, sections, questions) ==
    [title |-> title, description |-> description, source_url |-> source_url,
     crawl_time |-> crawl_time, sections |-> sections, questions |-> questions]

ExportError(code, message) == [code |-> code, message |-> message]

NO_CONTAINER_MESSAGE == <<"[no question container #divQuestion in the page]">>  \* 页面中未找到题目容器 #divQuestion。
NO_QUESTIONS_MESSAGE == <<"[page parsed but no question recognised]">>          \* 页面解析完成，但未识别到题目。

\* ------------------------------------------------------------ the renderers
RECURSIVE Flatten(_)
Flatten(lists) ==
    IF lists = <<>> THEN <<>> ELSE Head(lists) \o Flatten(Tail(lists))

\* [q for q in survey.questions if q.section == section.name]
SectionQuestions(survey, section) ==
    SelectSeq(survey.questions, LAMBDA q : q.section = section.name)

YES == <<"[yes]">>    \* 是
NO == <<"[no]">>      \* 否
NA == <<"N/A">>
TopicText(topic) == IF topic # None THEN IntToStr(Val(topic)) ELSE NA

Heading(text, level) == [kind |-> "heading", level |-> level, text |-> text]
Paragraph(text) == [kind |-> "paragraph", text |-> text]
Table(rows) == [kind |-> "table", rows |-> rows]
\* 题号 / 题型 / 必填 / 题干 / 选项 / 逻辑
TableHeaders == <<<<"[no.]">>, <<"[type]">>, <<"[required]">>, <<"[stem]">>,
                  <<"[options]">>, <<"[logic]">>>>
TableRow(q) ==
    <<q.display_no, q.qtype, IF q.required THEN YES ELSE NO, q.stem, q.options,
      q.logic_notes>>

\* the blocks of the document that write_docx saves; the paragraph prefixes
\* stand for 简介： / 来源： / 抓取时间： / 题目总数：
write_docx(survey) ==
    LET block(section) ==
            LET section_questions == SectionQuestions(survey, section)
            IN  IF section_questions = <<>> THEN <<>>
                ELSE <<Heading(section.name, 2),
                       Table(<<TableHeaders>>
                             \o [i \in 1..Len(section_questions) |->
                                    TableRow(section_questions[i])]),
                       Paragraph(<<>>)>>
    IN  <<Heading(survey.title, 0)>>
        \o (IF survey.description # <<>>
            THEN <<Paragraph(<<"[intro]: ">> \o survey.description)>> ELSE <<>>)
        \o <<Paragraph(<<"[source]: ">> \o survey.source_url),
             Paragraph(<<"[crawl time]: ">> \o survey.crawl_time),
             Paragraph(<<"[question total]: ">> \o IntToStr(Len(survey.questions)))>>
        \o Flatten([i \in 1..Len(survey.sections) |-> block(survey.sections[i])])

survey_to_dict(survey) ==
    LET question_items == survey.questions
        section_item(s) ==
            LET sec_questions == SelectSeq(question_items, LAMBDA q : q.section = s.name)
            IN  [name |-> s.name, start_topic |-> s.start_topic,
                 end_topic |-> s.end_topic, question_count |-> Len(sec_questions),
                 questions |-> sec_questions]
    IN  [schema_version |-> <<"1.0">>, title |-> survey.title,
         description |-> survey.description, source_url |-> survey.source_url,
         crawl_time |-> survey.crawl_time, question_count |-> Len(survey.questions),
         sections |-> [i \in 1..Len(survey.sections) |-> section_item(survey.sections[i])],
         questions |-> question_items]

\* the lines of one question; ~~~ stands for the code fence of the source
QuestionLines(q) ==
    <<<<"### Q">> \o q.display_no,
      <<"- index: ">> \o IntToStr(q.index),
      <<"- topic_id: ">> \o TopicText(q.topic_id),
      <<"- qtype: ">> \o q.qtype,
      <<"- required: ">> \o (IF q.required THEN YES ELSE NO),
      <<"- stem: ">> \o q.stem,
      <<"- options:">>, <<"~~~text">>, q.options, <<"~~~">>,
      <<"- logic_notes:">>, <<"~~~text">>, q.logic_notes, <<"~~~">>,
      <<>>>>

\* the line prefixes stand for 元数据 / 来源: / 抓取时间: / 题目总数: / 简介: and
\* 章节: / 起始题号(topic): / 结束题号(topic): / 章节题数:
render_markdown(survey) ==
    LET block(section) ==
            LET section_questions == SectionQuestions(survey, section)
            IN  IF section_questions = <<>> THEN <<>>
                ELSE <<<<"## [section]: ">> \o section.name,
                       <<"- [start topic]: ">> \o TopicText(section.start_topic),
                       <<"- [end topic]: ">> \o TopicText(section.end_topic),
                       <<"- [section questions]: ">> \o IntToStr(Len(section_questions)),
                       <<>>>>
                     \o Flatten([i \in 1..Len(section_questions) |->
                                    QuestionLines(section_questions[i])])
        lines == <<<<"# ">> \o survey.title, <<>>, <<"## [metadata]">>,
                   <<"- [source]: ">> \o survey.source_url,
                   <<"- [crawl time]: ">> \o survey.crawl_time,
                   <<"- [question total]: ">> \o IntToStr(Len(survey.questions))>>
                 \o (IF survey.description # <<>>
                     THEN <<<<"- [description]: ">> \o survey.description>> ELSE <<>>)
                 \o <<<<>>>>
                 \o Flatten([i \in 1..Len(survey.sections) |-> block(survey.sections[i])])
    IN  RStrip(Join(NL, lines)) \o NL

\* ------------------------------------------------------------ the documents
SeqsUpTo(S, n) == UNION {[1..k -> S] : k \in 0..n}

AttrNames == {question_attrs[i] : i \in 1..Len(question_attrs)}

\* a div without marker classes, attributes or children
BaseNode ==
    [class |-> {}, firstDiv |-> None, text |-> <<>>,
     topic |-> None, type |-> <<>>, req |-> <<>>, reqStar |-> FALSE,
     topichtml |-> None, labels |-> <<>>,
     scaleFirst |-> None, scaleLast |-> None, anchors |-> <<>>, table |-> None,
     attrs |-> [a \in AttrNames |-> <<>>], style |-> <<>>, inputs |-> <<>>]

Label(wrap, text) == [wrap |-> wrap, text |-> text]

Divider(firstDiv, text) ==
    [BaseNode EXCEPT !.class = {"cutfield"}, !.firstDiv = firstDiv, !.text = text]

\* dividers: without a name, named by the first child div, named by own text
DividerNodes ==
    {Divider(None, <<" ">>),
     Divider(Some(<<"A">>), <<"A">>),
     Divider(None, <<" ", "B", "\n">>)}

QuestionField == [BaseNode EXCEPT !.class = {"field", "ui-field-contain"}]

\* question nodes: no topic attribute; topic="1", single choice, required;
\* topic="q2", scale, with a stem
QuestionNodes ==
    {QuestionField,
     [QuestionField EXCEPT !.topic = Some(<<"1">>), !.type = <<"3">>,
                           !.req = <<"1">>,
                           !.labels = <<Label({"ui-radio"}, <<"Y">>),
                                        Label({"ui-radio"}, <<"N">>)>>],
     [QuestionField EXCEPT !.topic = Some(<<"q", "2">>), !.type = <<"5">>,
                           !.topichtml = Some(<<"S", " ", " ", "?">>),
                           !.scaleFirst = Some(<<"L">>)]}

\* a div that is neither: it carries only one of the two question classes
OtherNodes == {[BaseNode EXCEPT !.class = {"field"}]}

Nodes == DividerNodes \cup QuestionNodes \cup OtherNodes

Gates ==
    {g \in [kw : SUBSET KeywordSet, pwInput : BOOLEAN] : Cardinality(g.kw) <= MaxKw}
OpenGate == [kw |-> {}, pwInput |-> FALSE]

Meta(htitle, titleTag, descNodes, metaDesc) ==
    [htitle |-> htitle, titleTag |-> titleTag, descNodes |-> descNodes,
     metaDesc |-> metaDesc]
BareMeta == Meta(None, None, <<None, None, None, None, None>>, None)
Metas ==
    {BareMeta,
     Meta(Some(<<"H">>), Some(<<"t">>),
          <<None, Some(<<" ">>), Some(<<"D">>), None, Some(<<"d">>)>>, Some(<<"m">>)),
     Meta(Some(<<>>), Some(<<"t">>), <<None, None, None, None, None>>, Some(<<"m", " ">>))}

\* container: None, or Some of the list container.find_all("div") returns
Document(gate, meta, container) ==
    [kw |-> gate.kw, pwInput |-> gate.pwInput,
     htitle |-> meta.htitle, titleTag |-> meta.titleTag,
     descNodes |-> meta.descNodes, metaDesc |-> meta.metaDesc,
     vars |-> <<>>, container |-> container]

Containers(n) == {None} \cup {Some(l) : l \in SeqsUpTo(Nodes, n)}

\* documents without gating markers and head markup, with up to n divs;
\* documents with them, with up to MaxGatedNodes divs
DocumentsUpTo(n) ==
    {Document(OpenGate, BareMeta, c) : c \in Containers(n)}
    \cup {Document(g, m, c) : g \in Gates, m \in Metas, c \in Containers(MaxGatedNodes)}
Documents == DocumentsUpTo(MaxNodes)

Urls == {<<"https://www.wjx.cn/vm/a.aspx">>}
Clock == 1..MaxClock

\* ---------------------------------------------------------------- the state
VARIABLES
    html, source_url,   \* the arguments of parse_survey
    pc,                 \* the position in parse_survey
    soup, container, title, description, crawl_time, global_signals,
    nodes, pos,         \* the list the loop walks and the next index in it
    loop,               \* ordered_names, current_section, questions, display_index
    survey, error,      \* what the call returned or raised
    prev,               \* what the previous call on the same arguments returned
    call                \* a direct call of one of the pure functions

vars == <<html, source_url, pc, soup, container, title, description, crawl_time,
          global_signals, nodes, pos, loop, survey, error, prev, call>>

locals == <<soup, container, title, description, crawl_time, global_signals,
            nodes, pos, loop>>

NoLoop == LoopState(<<>>, <<>>, <<>>, 0)

Entry ==
    /\ pc = "check"
    /\ soup = None /\ container = None /\ title = None /\ description = None
    /\ crawl_time = None /\ global_signals = None /\ nodes = None /\ pos = 0
    /\ loop = NoLoop
    /\ survey = None /\ error = None

Init ==
    /\ html \in Documents
    /\ source_url \in Urls
    /\ Entry
    /\ prev = None
    /\ call = None

\* lines 430-432
CheckRestricted ==
    /\ pc = "check"
    /\ LET reason == check_restricted_page(html)
       IN  IF reason # None
           THEN /\ error' = Some(ExportError(EXIT_PARSE, Val(reason)))
                /\ pc' = "raised"
           ELSE /\ pc' = "soup"
                /\ UNCHANGED error
    /\ UNCHANGED <<html, source_url, locals, survey, prev, call>>

\* line 434
BuildSoup ==
    /\ pc = "soup"
    /\ soup' = Some([htitle |-> html.htitle, titleTag |-> html.titleTag,
                     descNodes |-> html.descNodes, metaDesc |-> html.metaDesc,
                     divQuestion |-> html.container])
    /\ pc' = "container"
    /\ UNCHANGED <<html, source_url, container, title, description, crawl_time,
                   global_signals, nodes, pos, loop, survey, error, prev, call>>

\* lines 435-437
SelectContainer ==
    /\ pc = "container"
    /\ container' = Val(soup).divQuestion
    /\ IF Val(soup).divQuestion = None
       THEN /\ error' = Some(ExportError(EXIT_PARSE, NO_CONTAINER_MESSAGE))
            /\ pc' = "raised"
       ELSE /\ pc' = "title"
            /\ UNCHANGED error
    /\ UNCHANGED <<html, source_url, soup, title, description, crawl_time,
                   global_signals, nodes, pos, loop, survey, prev, call>>

\* line 439
ExtractTitle ==
    /\ pc = "title"
    /\ title' = Some(TitleOf(Val(soup)))
    /\ pc' = "description"
    /\ UNCHANGED <<html, source_url, soup, container, description, crawl_time,
                   global_signals, nodes, pos, loop, survey, error, prev, call>>

\* line 440
ExtractDescription ==
    /\ pc = "description"
    /\ description' = Some(extract_description(Val(soup)))
    /\ pc' = "clock"
    /\ UNCHANGED <<html, source_url, soup, container, title, crawl_time,
                   global_signals, nodes, pos, loop, survey, error, prev, call>>

\* line 441
ReadClock ==
    /\ pc = "clock"
    /\ \E now \in Clock : crawl_time' = Some(FormatTime(now))
    /\ pc' = "signals"
    /\ UNCHANGED <<html, source_url, soup, container, title, description,
                   global_signals, nodes, pos, loop, survey, error, prev, call>>

\* lines 442-449
ExtractSignals ==
    /\ pc = "signals"
    /\ global_signals' = Some(extract_global_logic_signals(html))
    /\ loop' = LoopState(<<DEFAULT_SECTION>>, DEFAULT_SECTION, <<>>, 0)
    /\ nodes' = container
    /\ pos' = 1
    /\ pc' = "loop"
    /\ UNCHANGED <<html, source_url, soup, container, title, description,
                   crawl_time, survey, error, prev, call>>

\* lines 450-462
Visit ==
    /\ pc = "loop"
    /\ pos <= Len(Val(nodes))
    /\ loop' = VisitNode(loop, Val(nodes)[pos], Val(global_signals))
    /\ pos' = pos + 1
    /\ UNCHANGED <<html, source_url, pc, soup, container, title, description,
                   crawl_time, global_signals, nodes, survey, error, prev, call>>

\* Finish without the "if not questions" test
Finish_without_empty_test ==
    /\ pc = "loop"
    /\ pos > Len(Val(nodes))
    /\ survey' = Some(Survey(Val(title), Val(description), source_url,
                             Val(crawl_time),
                             build_sections(loop.questions, loop.ordered_names),
                             loop.questions))
    /\ pc' = "returned"
    /\ UNCHANGED <<html, source_url, locals, error, prev, call>>

\* lines 464-475
Finish ==
    /\ pc = "loop"
    /\ pos > Len(Val(nodes))
    /\ IF loop.questions = <<>>
       THEN /\ error' = Some(ExportError(EXIT_PARSE, NO_QUESTIONS_MESSAGE))
            /\ pc' = "raised"
            /\ UNCHANGED survey
       ELSE /\ survey' = Some(Survey(Val(title), Val(description), source_url,
                                     Val(crawl_time),
                                     build_sections(loop.questions, loop.ordered_names),
                                     loop.questions))
            /\ pc' = "returned"
            /\ UNCHANGED error
    /\ UNCHANGED <<html, source_url, locals, prev, call>>

Next ==
    \/ CheckRestricted
    \/ BuildSoup
    \/ SelectContainer
    \/ ExtractTitle
    \/ ExtractDescription
    \/ ReadClock
    \/ ExtractSignals
    \/ Visit
    \/ Finish

Spec == Init /\ [][Next]_vars

\* ------------------------------------------- the same document parsed again
\* A caller that got a Survey calls parse_survey(html, source_url) once more:
\* a new call starts with no local assigned.
Reparse ==
    /\ pc = "returned"
    /\ prev = None
    /\ prev' = survey
    /\ pc' = "check"
    /\ soup' = None /\ container' = None /\ title' = None /\ description' = None
    /\ crawl_time' = None /\ global_signals' = None /\ nodes' = None /\ pos' = 0
    /\ loop' = NoLoop
    /\ survey' = None /\ error' = None
    /\ UNCHANGED <<html, source_url, call>>

InitReparse ==
    /\ html \in DocumentsUpTo(MaxReparseNodes)
    /\ source_url \in Urls
    /\ Entry
    /\ prev = None
    /\ call = None

NextReparse == Next \/ Reparse

SpecReparse == InitReparse /\ [][NextReparse]_vars

\* documents whose question nodes differ in their topic attribute: absent,
\* empty, without a digit, a digit run, a digit run after other characters
TopicAttrs ==
    {None, Some(<<>>), Some(<<"x">>), Some(<<"q", "-">>), Some(<<"1">>),
     Some(<<"q", "2", "0", "_", "3">>)}
TopicNodes ==
    {[QuestionField EXCEPT !.topic = t] : t \in TopicAttrs}
    \cup {Divider(Some(<<"A">>), <<"A">>)}
TopicDocuments ==
    {Document(OpenGate, BareMeta, Some(l)) : l \in SeqsUpTo(TopicNodes, MaxTopicNodes)}

InitTopics ==
    /\ html \in TopicDocuments
    /\ source_url \in Urls
    /\ Entry
    /\ prev = None
    /\ call = None

SpecTopics == InitTopics /\ [][Next]_vars

\* main after parse_survey has returned: the three files, held by content
OutputFiles(docx, json, md) ==
    [fn |-> "main", docx |-> docx, json |-> json, md |-> md]

InitExport ==
    /\ html \in DocumentsUpTo(MaxExportNodes)
    /\ source_url \in Urls
    /\ Entry
    /\ prev = None
    /\ call = None

\* line 686
WriteDocx ==
    /\ pc = "returned"
    /\ call = None
    /\ call' = Some(OutputFiles(Some(write_docx(Val(survey))), None, None))
    /\ UNCHANGED <<html, source_url, pc, locals, survey, error, prev>>

\* line 688
WriteJson ==
    /\ call # None
    /\ Val(call).fn = "main"
    /\ Val(call).docx # None /\ Val(call).json = None
    /\ call' = Some([Val(call) EXCEPT !.json = Some(survey_to_dict(Val(survey)))])
    /\ UNCHANGED <<html, source_url, pc, locals, survey, error, prev>>

\* line 690
WriteMarkdown ==
    /\ call # None
    /\ Val(call).fn = "main"
    /\ Val(call).json # None /\ Val(call).md = None
    /\ call' = Some([Val(call) EXCEPT !.md = Some(render_markdown(Val(survey)))])
    /\ UNCHANGED <<html, source_url, pc, locals, survey, error, prev>>

NextExport == Next \/ WriteDocx \/ WriteJson \/ WriteMarkdown

SpecExport == InitExport /\ [][NextExport]_vars

\* ------------------------------------------------ direct calls of functions
\* While a function is called directly no parse is under way.
NoParse ==
    /\ html = Document(OpenGate, BareMeta, None)
    /\ source_url \in Urls
    /\ pc = "idle"
    /\ soup = None /\ container = None /\ title = None /\ description = None
    /\ crawl_time = None /\ global_signals = None /\ nodes = None /\ pos = 0
    /\ loop = NoLoop
    /\ survey = None /\ error = None
    /\ prev = None

parse_vars == <<html, source_url, pc, locals, survey, error, prev>>

SectionNames == {DEFAULT_SECTION, <<"A">>, <<"B">>}

\* question lists as parse_survey builds them: index 1..k, any section, any topic
QuestionLists(n) ==
    UNION {{[i \in 1..k |-> parse_question(f[i][1], i, f[i][2], <<>>)] :
                f \in [1..k -> QuestionNodes \X SectionNames]} : k \in 0..n}

BuildCalls ==
    [fn : {"build_sections"},
     questions : QuestionLists(MaxBuildQuestions),
     ordered_names : SeqsUpTo(SectionNames, MaxBuildNames),
     result : {None}]

InitBuildSections == NoParse /\ call \in {Some(c) : c \in BuildCalls}

CallBuildSections ==
    /\ call # None
    /\ Val(call).fn = "build_sections"
    /\ Val(call).result = None
    /\ call' = Some([Val(call) EXCEPT !.result =
                        Some(build_sections(Val(call).questions, Val(call).ordered_names))])
    /\ UNCHANGED parse_vars

SpecBuildSections == InitBuildSections /\ [][CallBuildSections]_vars

TypeCodes == {<<"1">>, <<"3">>, <<"4">>, <<"5">>, <<"6">>, <<"2">>, <<>>}

LabelTexts == {<<>>, <<" ">>, <<"Y">>, <<"N", " ">>}
Labels == {Label(w, t) : w \in {{"ui-radio"}, {"ui-checkbox"}, {}}, t \in LabelTexts}
LabelNodes == {[QuestionField EXCEPT !.labels = l] : l \in SeqsUpTo(Labels, MaxLabels)}

ScaleTitles == {None, Some(<<" ">>), Some(<<"L">>)}
Anchors == [val : {<<>>, <<"1">>}, title : {<<>>, <<"t">>}, htitle : {<<" ">>, <<"h">>}]
ScaleNodes ==
    {[QuestionField EXCEPT !.scaleFirst = f, !.scaleLast = l, !.anchors = a] :
        f \in ScaleTitles, l \in ScaleTitles, a \in SeqsUpTo(Anchors, MaxAnchors)}

CellTexts == {<<>>, <<"c">>, <<" ", "d">>}
TableRows == SeqsUpTo(CellTexts, MaxCells)
MatrixNodes ==
    {[QuestionField EXCEPT !.table = t] :
        t \in {None} \cup {Some(rows) : rows \in SeqsUpTo(TableRows, MaxRows)}}

OptionNodes == LabelNodes \cup ScaleNodes \cup MatrixNodes

OptionCalls ==
    [fn : {"extract_options"}, node : OptionNodes, type_code : TypeCodes,
     result : {None}]

InitExtractOptions == NoParse /\ call \in {Some(c) : c \in OptionCalls}

CallExtractOptions ==
    /\ call # None
    /\ Val(call).fn = "extract_options"
    /\ Val(call).result = None
    /\ call' = Some([Val(call) EXCEPT !.result =
                        Some(extract_options(Val(call).node, Val(call).type_code))])
    /\ UNCHANGED parse_vars

SpecExtractOptions == InitExtractOptions /\ [][CallExtractOptions]_vars

\* ratings tables: a header row and the rows below it, of which only the
\* first cell is read
HeaderRows(h) == SeqsUpTo(CellTexts, h)
DataRows == {<<>>, << <<>> >>, << <<"c">> >>, << <<" ", "d">>, <<"x">> >>}
RatingTables(h, r) ==
    {<<header>> \o d : header \in HeaderRows(h), d \in SeqsUpTo(DataRows, r)}
RatingNodes(h, r) ==
    {[QuestionField EXCEPT !.table = Some(t)] : t \in RatingTables(h, r)}

MatrixCalls(h, r) ==
    [fn : {"extract_matrix_options"}, node : RatingNodes(h, r), result : {None}]

InitMatrixOptions ==
    NoParse /\ call \in {Some(c) : c \in MatrixCalls(MaxHeaderCells, MaxDataRows)}

CallMatrixOptions ==
    /\ call # None
    /\ Val(call).fn = "extract_matrix_options"
    /\ Val(call).result = None
    /\ call' = Some([Val(call) EXCEPT !.result =
                        Some(extract_matrix_options(Val(call).node))])
    /\ UNCHANGED parse_vars

SpecMatrixOptions == InitMatrixOptions /\ [][CallMatrixOptions]_vars

\* question nodes as extract_logic_notes reads them: the first k of the
\* question attributes set, a style, input/option elements
AttrsSet(k) ==
    [a \in AttrNames |->
        IF \E i \in 1..k : i <= Len(question_attrs) /\ question_attrs[i] = a
        THEN <<"v">> ELSE <<" ">>]
InputTag(id, jumpto, rel) ==
    [id |-> id, name |-> <<>>, value |-> <<>>, jumpto |-> jumpto, rel |-> rel]
InputTags ==
    {InputTag(<<>>, <<>>, <<"Q", "1">>),
     InputTag(<<"b">>, <<"4">>, <<"r">>)}
Styles == {<<>>, <<"D", "i", "s", "p", "l", "a", "y", ":", " ", "n", "o", "n", "e">>}
\* none, one, all of the attributes, and the numbers around the cut
AttrCounts == {0, 1, MAX_NOTES - 1, MAX_NOTES, Len(question_attrs)}
LogicNodes(n) ==
    {[QuestionField EXCEPT !.attrs = AttrsSet(k), !.style = s, !.inputs = i] :
        k \in AttrCounts, s \in Styles, i \in SeqsUpTo(InputTags, n)}
\* signals s1, s2, ...: each mentions question 1 or does not
SignalValues == {<<"Q", "1", "=", "2">>, <<"x">>}
SignalLists(n) ==
    UNION {{[i \in 1..k |-> [name |-> <<"s">> \o IntToStr(i), value |-> f[i]]] :
                f \in [1..k -> SignalValues]} : k \in 0..n}

LogicCalls(inputs, signals) ==
    [fn : {"extract_logic_notes"}, node : LogicNodes(inputs),
     topic_id : {None, Some(1)}, global_signals : SignalLists(signals),
     result : {None}]

InitLogicNotes ==
    NoParse /\ call \in {Some(c) : c \in LogicCalls(MaxInputs, MaxSignals)}

CallLogicNotes ==
    /\ call # None
    /\ Val(call).fn = "extract_logic_notes"
    /\ Val(call).result = None
    /\ call' = Some([Val(call) EXCEPT !.result =
                        Some(extract_logic_notes(Val(call).node, Val(call).topic_id,
                                                 Val(call).global_signals))])
    /\ UNCHANGED parse_vars

SpecLogicNotes == InitLogicNotes /\ [][CallLogicNotes]_vars

\* --------------------------------------------------------------- fetch_html
RECURSIVE Pow2(_)
Pow2(n) == IF n = 0 THEN 1 ELSE 2 * Pow2(n - 1)

\* sleep_sec growing by two per attempt
SleepSeconds_linear(attempt) == 2 * attempt

\* sleep_sec = 2**attempt
SleepSeconds(attempt) == Pow2(attempt)

\* what requests.get does: it raises a RequestException (raised), or hands
\* back a response with a status code, the encoding the server declared, the
\* encoding guessed from the content, and the content
Response(raised, status_code, apparent_encoding, content) ==
    [raised |-> raised, status_code |-> status_code, encoding |-> "ISO-8859-1",
     apparent_encoding |-> apparent_encoding, content |-> content]
StatusCodes == {200, 399, 400, 503}
Responses ==
    {Response(FALSE, s, e, c) :
        s \in StatusCodes, e \in {None, Some("utf-8")}, c \in {"<html>"}}
    \cup {Response(TRUE, 0, None, "")}

\* response.text: the content decoded with response.encoding
TextOf(response, encoding) == <<response.content, " decoded as ", encoding>>

HTTP_ERROR == <<"HTTP ">>
REQUEST_ERROR == <<"[RequestException]">>
NETWORK_MESSAGE == <<"[network request failed]: ">>    \* 网络请求失败:

\* the frame of fetch_html: its argument, its position and its locals, with
\* the responses received and the seconds slept so far
FetchFrame(retries) ==
    [fn |-> "fetch_html", retries |-> retries, at |-> "request", attempt |-> 0,
     last_error |-> None, responses |-> <<>>, slept |-> <<>>,
     result |-> None, error |-> None]

InitFetch == NoParse /\ call \in {Some(FetchFrame(r)) : r \in 0..MaxRetries}

InFetch(at) ==
    /\ call # None
    /\ Val(call).fn = "fetch_html"
    /\ Val(call).at = at

\* lines 129-141 and 144: one pass of the loop up to the sleep, the return
\* or, after the last pass, the raise
Request ==
    /\ InFetch("request")
    /\ \E response \in Responses :
         LET f == [Val(call) EXCEPT !.responses = Append(@, response)]
             failed == response.raised \/ response.status_code >= 400
             exc == IF response.raised THEN REQUEST_ERROR
                    ELSE HTTP_ERROR \o IntToStr(response.status_code)
             encoding == IF response.apparent_encoding # None
                         THEN Val(response.apparent_encoding) ELSE response.encoding
         IN  IF ~failed
             THEN call' = Some([f EXCEPT !.result = Some(TextOf(response, encoding)),
                                         !.at = "returned"])
             ELSE IF f.attempt < f.retries
             THEN call' = Some([f EXCEPT !.last_error = Some(exc), !.at = "sleep"])
             ELSE call' = Some([f EXCEPT
                      !.last_error = Some(exc),
                      !.error = Some(ExportError(EXIT_NETWORK, NETWORK_MESSAGE \o exc)),
                      !.at = "raised"])
    /\ UNCHANGED parse_vars

\* lines 140-143: time.sleep(sleep_sec) ends and the loop goes on
Sleep ==
    /\ InFetch("sleep")
    /\ call' = Some([Val(call) EXCEPT
                        !.slept = Append(@, SleepSeconds(Val(call).attempt)),
                        !.attempt = @ + 1,
                        !.at = "request"])
    /\ UNCHANGED parse_vars

NextFetch == Request \/ Sleep

\* a request ends (timeout_sec) and a sleep ends: the call goes on while it can
SpecFetch == InitFetch /\ [][NextFetch]_vars /\ WF_vars(NextFetch)

\* ------------------------------------------- app_gradio.py: the batch run
\* A link is the token sequence <<scheme, "://", host tokens, "/", path>>.
urlparse(url) ==
    IF Len(url) >= 2 /\ url[2] = "://"
    THEN LET rest == SubSeq(url, 3, Len(url))
             stop == IF InList("/", rest)
                     THEN CHOOSE i \in 1..Len(rest) :
                              rest[i] = "/" /\ \A j \in 1..(i - 1) : rest[j] # "/"
                     ELSE Len(rest) + 1
         IN  [scheme |-> url[1], netloc |-> SubSeq(rest, 1, stop - 1)]
    ELSE [scheme |-> "", netloc |-> <<>>]

AllowedHosts == {<<"wjx.cn">>, <<"wjx.top">>, <<"sojump.com">>, <<"sojump.cn">>}

validate_url(url) ==
    LET parsed == urlparse(url)
    IN  IF parsed.scheme \notin {"http", "https"} \/ parsed.netloc = <<>> THEN FALSE
        ELSE \E part \in AllowedHosts : Contains(Lower(parsed.netloc), part)

RECURSIVE dedupe_keep_order(_)
dedupe_keep_order(items) ==
    IF items = <<>> THEN <<>>
    ELSE LET out == dedupe_keep_order(SubSeq(items, 1, Len(items) - 1))
             item == items[Len(items)]
         IN  IF InList(item, out) THEN out ELSE Append(out, item)

\* (valid, invalid) of the merged links
parse_input_urls(merged_input) ==
    LET merged == dedupe_keep_order(merged_input)
    IN  [valid |-> SelectSeq(merged, validate_url),
         invalid |-> SelectSeq(merged, LAMBDA u : ~validate_url(u))]

ExportResult(url, status, docx_path, json_path, md_path) ==
    [url |-> url, status |-> status, docx_path |-> docx_path,
     json_path |-> json_path, md_path |-> md_path]

\* what export_one_url hands back for a link: a result whose status is
\* "success", with the files it wrote, or "failed", with none
export_one_url(url) ==
    {ExportResult(url, "success", Some(url \o <<".docx">>), Some(url \o <<".json">>),
                  Some(url \o <<".md">>)),
     ExportResult(url, "failed", None, None, None)}

BatchResult(success_count, failed_count, results, all_files) ==
    [success_count |-> success_count, failed_count |-> failed_count,
     results |-> results, all_files |-> all_files]

BatchUrls ==
    {<<"https", "://", "www.", "wjx.cn", "/", "vm/a.aspx">>,
     <<"http", "://", "sojump.com">>,
     <<"https", "://", "v.", "wjx.top", "/", "b">>,
     <<"ftp", "://", "wjx.cn">>,
     <<"https", "://", "example.com", "/", "wjx.cn">>,
     <<"wjx.cn">>}

\* the frame of run_batch_export: its input, its position and its locals
BatchFrame(merged_input) ==
    [fn |-> "run_batch_export", merged_input |-> merged_input, at |-> "start",
     valid_urls |-> <<>>, invalid_urls |-> <<>>, idx |-> 0, results |-> <<>>,
     download_files |-> <<>>, success_count |-> 0, failed_count |-> 0,
     batch |-> None]

InitBatch ==
    /\ NoParse
    /\ call \in {Some(BatchFrame(u)) : u \in SeqsUpTo(BatchUrls, MaxUrls)}

InBatch(at) ==
    /\ call # None
    /\ Val(call).fn = "run_batch_export"
    /\ Val(call).at = at

\* lines 242-273: up to the loop, or to the early return
CollectUrls ==
    /\ InBatch("start")
    /\ LET urls == parse_input_urls(Val(call).merged_input)
       IN  call' = Some([Val(call) EXCEPT
                            !.valid_urls = urls.valid,
                            !.invalid_urls = urls.invalid,
                            !.at = IF urls.valid = <<>> THEN "ended" ELSE "loop"])
    /\ UNCHANGED parse_vars

\* the files of a result that are set
FilesOf(item) ==
    LET set == SelectSeq(<<item.docx_path, item.json_path, item.md_path>>,
                         LAMBDA f : f # None)
    IN  [i \in 1..Len(set) |-> Val(set[i])]

\* the loop body with a break after a failed export
ExportNextUrl_stopping_on_failure ==
    /\ InBatch("loop")
    /\ Val(call).idx < Len(Val(call).valid_urls)
    /\ LET f == Val(call)
           url == f.valid_urls[f.idx + 1]
       IN  \E item \in export_one_url(url) :
             call' = Some([f EXCEPT
                 !.idx = IF item.status = "success" THEN @ + 1 ELSE Len(f.valid_urls),
                 !.results = Append(@, item),
                 !.success_count = IF item.status = "success" THEN @ + 1 ELSE @,
                 !.failed_count = IF item.status = "success" THEN @ ELSE @ + 1,
                 !.download_files =
                     IF item.status = "success" THEN @ \o FilesOf(item) ELSE @])
    /\ UNCHANGED parse_vars

\* lines 277-290: one pass of the loop over valid_urls
ExportNextUrl ==
    /\ InBatch("loop")
    /\ Val(call).idx < Len(Val(call).valid_urls)
    /\ LET f == Val(call)
           url == f.valid_urls[f.idx + 1]
       IN  \E item \in export_one_url(url) :
             call' = Some([f EXCEPT
                 !.idx = @ + 1,
                 !.results = Append(@, item),
                 !.success_count = IF item.status = "success" THEN @ + 1 ELSE @,
                 !.failed_count = IF item.status = "success" THEN @ ELSE @ + 1,
                 !.download_files =
                     IF item.status = "success" THEN @ \o FilesOf(item) ELSE @])
    /\ UNCHANGED parse_vars

\* lines 292-316: after the loop
FinishBatch ==
    /\ InBatch("loop")
    /\ Val(call).idx = Len(Val(call).valid_urls)
    /\ LET f == Val(call)
       IN  call' = Some([f EXCEPT
               !.batch = Some(BatchResult(f.success_count, f.failed_count,
                                          f.results, f.download_files)),
               !.at = "finished"])
    /\ UNCHANGED parse_vars

NextBatch == CollectUrls \/ ExportNextUrl \/ FinishBatch

SpecBatch == InitBatch /\ [][NextBatch]_vars

\* ------------------------------------------------------- document measures
Count(list, Test(_)) == Len(SelectSeq(list, Test))

\* the nodes of the container the traversal takes for dividers / for questions
IsDividerNode(node) == "cutfield" \in node.class
IsQuestionNode(node) ==
    /\ "cutfield" \notin node.class
    /\ {"field", "ui-field-contain"} \subseteq node.class

HasContainer == html.container # None
DocNodes == IF HasContainer THEN Val(html.container) ELSE <<>>
N == Count(DocNodes, IsQuestionNode)
D == Count(DocNodes, IsDividerNode)

\* the names the document's dividers carry, empty ones left out
DividerNames ==
    LET dividers == SelectSeq(DocNodes, IsDividerNode)
        names == [i \in 1..Len(dividers) |->
                    IF dividers[i].firstDiv # None
                       /\ normalize_text(Val(dividers[i].firstDiv)) # <<>>
                    THEN normalize_text(Val(dividers[i].firstDiv))
                    ELSE normalize_text(dividers[i].text)]
    IN  SelectSeq(names, IsNonEmpty)

\* the sections in the order the document first mentions them
Encountered == unique_keep_order(<<DEFAULT_SECTION>> \o DividerNames)

Gated == html.kw # {} \/ html.pwInput

Returned == pc = "returned"
Raised == pc = "raised"
Names(sections) == [i \in 1..Len(sections) |-> sections[i].name]
QuestionsIn(questions, name) ==
    SelectSeq(questions, LAMBDA q : q.section = name)
IndexIn(x, list) == CHOOSE i \in 1..Len(list) : list[i] = x

\* ------------------------------------------------------------------ claims

\* C1: a returned Survey has exactly N questions, N the number of question
\* nodes of the container, with index 1, 2, ..., N in list order and display_no
\* the decimal string of index, and at most D+1 sections, D the number of
\* divider nodes.
C1_IndicesContiguous ==
    Returned =>
        LET s == Val(survey)
        IN  /\ Len(s.questions) = N
            /\ \A i \in 1..Len(s.questions) :
                  /\ s.questions[i].index = i
                  /\ \A k \in 1..Len(s.questions[i].display_no) :
                        IsDigit(s.questions[i].display_no[k])
                  /\ StrToInt(s.questions[i].display_no) = i
            /\ Len(s.sections) <= D + 1

C1_Witness ==
    /\ Returned
    /\ N = 3
    /\ D = 1
    /\ Len(Val(survey).sections) = 2

\* C2: in a returned Survey every question's section is the name of one of the
\* Survey's sections.
C2_SectionExists ==
    Returned =>
        \A i \in 1..Len(Val(survey).questions) :
            \E j \in 1..Len(Val(survey).sections) :
                Val(survey).sections[j].name = Val(survey).questions[i].section

\* the container starts with a divider, every divider is followed at once by
\* a question node, there are two or more dividers and their names are
\* non-empty and distinct
DividedDocument ==
    /\ HasContainer
    /\ D >= 2
    /\ Len(DividerNames) = D
    /\ \A i, j \in 1..D : DividerNames[i] = DividerNames[j] => i = j
    /\ IsDividerNode(DocNodes[1])
    /\ \A i \in 1..Len(DocNodes) :
          IsDividerNode(DocNodes[i]) =>
              i < Len(DocNodes) /\ IsQuestionNode(DocNodes[i + 1])

\* C3: for such a document the sections are the divider names in document
\* order, every question is returned and there is no default section.
C3_DividerSections ==
    (Returned /\ DividedDocument) =>
        /\ Names(Val(survey).sections) = DividerNames
        /\ Len(Val(survey).questions) = N
        /\ ~InList(DEFAULT_SECTION, Names(Val(survey).sections))

\* C4: a document with a gating keyword or a password input makes
\* check_restricted_page return a reason, and parse_survey then raises the
\* parse error with that reason having built no tree, looked up no container
\* and extracted no title, description, signal or question.
C4_RestrictedBeforeParsing ==
    /\ Gated <=> check_restricted_page(html) # None
    /\ (Gated /\ pc # "check") =>
          /\ Raised
          /\ error = Some(ExportError(EXIT_PARSE, Val(check_restricted_page(html))))
          /\ Val(error).message \in
                {keyword_reasons(k) : k \in html.kw} \cup {PASSWORD_INPUT_REASON}
          /\ soup = None /\ container = None /\ title = None
          /\ description = None /\ crawl_time = None /\ global_signals = None
          /\ nodes = None /\ pos = 0 /\ loop = NoLoop
          /\ survey = None

C4_Witness ==
    /\ Raised
    /\ html.pwInput /\ html.kw = {}
    /\ N = 1
    /\ error = Some(ExportError(EXIT_PARSE, PASSWORD_INPUT_REASON))

\* C5: on a document that is not restricted parse_survey ends, and it ends
\* raising the parse error exactly when the container is missing (first) or no
\* question node was recognised; otherwise it returns a Survey with every
\* field set and at least one question.  No Survey exists before the return.
C5_FailsExactlyWhenEmpty ==
    /\ (pc \notin {"raised", "returned"}) => survey = None
    /\ (pc \notin {"loop", "raised", "returned"}) => ENABLED Next
    \* in the loop the position is in the list (Visit) or just past it (Finish)
    /\ pc = "loop" => (nodes # None /\ pos \in 1..(Len(Val(nodes)) + 1))
    /\ (~Gated /\ pc \in {"raised", "returned"}) =>
          /\ Raised <=> (~HasContainer \/ N = 0)
          /\ Raised =>
                /\ survey = None
                /\ error = Some(ExportError(EXIT_PARSE,
                              IF ~HasContainer THEN NO_CONTAINER_MESSAGE
                              ELSE NO_QUESTIONS_MESSAGE))
          /\ Returned =>
                /\ error = None
                /\ Len(Val(survey).questions) >= 1
                /\ Len(Val(survey).sections) >= 1
                /\ Val(survey).title # <<>>
                /\ Val(survey).crawl_time # <<>>
                /\ Val(survey).source_url = source_url

C5_Witness ==
    /\ Raised
    /\ ~Gated
    /\ HasContainer /\ D >= 1 /\ N = 0
    /\ error = Some(ExportError(EXIT_PARSE, NO_QUESTIONS_MESSAGE))

\* C6: a returned section without questions is the only section the document
\* mentions: no divider-named section was encountered.
C6_NoEmptySection ==
    Returned =>
        \A j \in 1..Len(Val(survey).sections) :
            QuestionsIn(Val(survey).questions, Val(survey).sections[j].name) = <<>>
                => Encountered = <<Val(survey).sections[j].name>>

\* C7: the names of the returned sections are pairwise distinct and in the
\* order of their first occurrence in the document, and the default section is
\* the first one whenever a question belongs to it.
C7_SectionOrder ==
    Returned =>
        LET names == Names(Val(survey).sections)
        IN  /\ \A i, j \in 1..Len(names) : names[i] = names[j] => i = j
            /\ \A i \in 1..Len(names) : InList(names[i], Encountered)
            /\ \A i, j \in 1..Len(names) :
                  i < j => IndexIn(names[i], Encountered) < IndexIn(names[j], Encountered)
            /\ QuestionsIn(Val(survey).questions, DEFAULT_SECTION) # <<>>
                  => names[1] = DEFAULT_SECTION

\* C8, as stated: build_sections returns at least one Section for every
\* question list and every ordered name list.
C8_NeverEmpty ==
    (call # None /\ Val(call).result # None) => Len(Val(Val(call).result)) >= 1

Occurrences(x, list) == Cardinality({i \in 1..Len(list) : list[i] = x})

\* C8, amended: build_sections returns at least one Section for every
\* question list and every ordered name list in which the default section name
\* occurs at most once (so for every list parse_survey hands it).
C8_NeverEmptyOnDefaultOnce ==
    (/\ call # None
     /\ Val(call).result # None
     /\ Occurrences(DEFAULT_SECTION, Val(call).ordered_names) <= 1)
        => Len(Val(Val(call).result)) >= 1

\* every input section is empty and none is the default one: the synthetic
\* default section is the result
C8_Witness ==
    /\ call # None
    /\ Val(call).questions = <<>>
    /\ Val(call).ordered_names = << <<"A">>, <<"B">> >>
    /\ Val(call).result = Some(<<Section(DEFAULT_SECTION, None, None)>>)

AllButCrawlTime(s) ==
    [title |-> s.title, description |-> s.description, source_url |-> s.source_url,
     sections |-> s.sections, questions |-> s.questions]

Blank(text) == \A i \in 1..Len(text) : text[i] \in Ws
NoLabelText(node, wrap) ==
    \A i \in 1..Len(node.labels) :
        wrap \subseteq node.labels[i].wrap => Blank(node.labels[i].text)
NoScaleText(node) ==
    /\ node.scaleFirst = None \/ Blank(Val(node.scaleFirst))
    /\ node.scaleLast = None \/ Blank(Val(node.scaleLast))
    /\ \A i \in 1..Len(node.anchors) : Blank(node.anchors[i].val)
NoMatrixText(rows) ==
    /\ \A i \in 1..Len(rows[1]) : Blank(rows[1][i])
    /\ \A r \in 2..Len(rows) : rows[r] = <<>> \/ Blank(rows[r][1])

\* the placeholder extract_options owes a node without recognisable options
Placeholder(node, type_code) ==
    IF type_code = <<"3">>
    THEN IF NoLabelText(node, {"ui-radio"}) THEN Some(NO_RADIO_OPTIONS) ELSE None
    ELSE IF type_code = <<"4">>
    THEN IF NoLabelText(node, {"ui-checkbox"}) THEN Some(NO_CHECKBOX_OPTIONS) ELSE None
    ELSE IF type_code = <<"1">> THEN None
    ELSE IF type_code = <<"5">>
    THEN IF NoScaleText(node) THEN Some(NO_SCALE_TEXT) ELSE None
    ELSE IF type_code = <<"6">>
    THEN IF node.table = None THEN Some(NO_MATRIX_TABLE)
         ELSE IF Val(node.table) = <<>> THEN Some(EMPTY_MATRIX_TABLE)
         ELSE IF NoMatrixText(Val(node.table)) THEN Some(NO_MATRIX_LABELS)
         ELSE None
    ELSE IF NoLabelText(node, {}) THEN Some(NO_OPTIONS) ELSE None

\* C10: extract_options never returns the empty string, and for a node without
\* recognisable options of its type it returns that type's placeholder.
C10_OptionsNeverEmpty ==
    (call # None /\ Val(call).result # None) =>
        LET c == Val(call)
        IN  /\ Val(c.result) # <<>>
            /\ \A i \in 1..Len(Val(c.result)) : Val(c.result)[i] # ""
            /\ Placeholder(c.node, c.type_code) # None
                  => c.result = Placeholder(c.node, c.type_code)

C10_Witness ==
    /\ call # None
    /\ Val(call).type_code = <<"6">>
    /\ Val(call).node.table # None
    /\ Len(Val(Val(call).node.table)) = 2
    /\ Val(call).result = Some(NO_MATRIX_LABELS)

\* the pieces of a text between the occurrences of a separator token
RECURSIVE Split(_, _)
Split(text, sep) ==
    IF \A i \in 1..Len(text) : text[i] # sep THEN <<text>>
    ELSE LET k == CHOOSE i \in 1..Len(text) :
                      text[i] = sep /\ \A j \in 1..(i - 1) : text[j] # sep
         IN  <<SubSeq(text, 1, k - 1)>> \o Split(SubSeq(text, k + 1, Len(text)), sep)

\* the labels listed by the line of an options text that starts with a prefix
LabelsOfLine(text, prefix, sep) ==
    LET lines == SelectSeq(Split(text, "\n"),
                           LAMBDA l : l # <<>> /\ l[1] = prefix)
    IN  IF lines = <<>> THEN <<>> ELSE Split(Tail(lines[1]), sep)
LinePrefixes(text) ==
    LET lines == Split(text, "\n")
    IN  [i \in 1..Len(lines) |-> IF lines[i] = <<>> THEN "" ELSE lines[i][1]]

MatrixCalled ==
    /\ call # None
    /\ Val(call).fn = "extract_matrix_options"
    /\ Val(call).result # None
HeaderOf(c) == Val(c.node.table)[1]
DataOf(c) == Tail(Val(c.node.table))
FilledData(c) ==
    \A i \in 1..Len(DataOf(c)) : DataOf(c)[i] # <<>> /\ ~Blank(DataOf(c)[i][1])
FilledFrom(header, first) == \A i \in first..Len(header) : ~Blank(header[i])

\* C11: for a header row of h cells, the first empty and the others not,
\* above r rows that each start with a non-empty cell, the columns line of
\* extract_matrix_options lists the h-1 header texts after the first, in
\* order, and the rows line lists the r first-cell texts, in order (a line
\* that would list nothing is not written); when the first header cell is
\* not empty either, the columns line lists all h header texts.
C11_MatrixLabels ==
    MatrixCalled /\ FilledData(Val(call)) /\ HeaderOf(Val(call)) # <<>> =>
        LET header == HeaderOf(Val(call))
            data == DataOf(Val(call))
            h == Len(header)
            r == Len(data)
            result == Val(Val(call).result)
            columns == LabelsOfLine(result, "[columns]: ", " | ")
            rows == LabelsOfLine(result, "[rows]: ", ";")
            kept == IF Blank(header[1]) THEN 1 ELSE 0
        IN  FilledFrom(header, 2) =>
              /\ columns = [i \in 1..(h - kept) |-> normalize_text(header[i + kept])]
              /\ rows = [i \in 1..r |-> normalize_text(data[i][1])]
              /\ LinePrefixes(result) =
                    (IF h - kept > 0 THEN <<"[columns]: ">> ELSE <<>>)
                    \o (IF r > 0 THEN <<"[rows]: ">> ELSE <<>>)
                 \/ (h - kept = 0 /\ r = 0 /\ result = NO_MATRIX_LABELS)

\* three header cells, the first empty, above four rows: 2 and 4 labels
C11_Witness ==
    /\ MatrixCalled /\ FilledData(Val(call))
    /\ Len(HeaderOf(Val(call))) = 3 /\ Len(DataOf(Val(call))) = 4
    /\ Blank(HeaderOf(Val(call))[1]) /\ FilledFrom(HeaderOf(Val(call)), 2)
    /\ Len(LabelsOfLine(Val(Val(call).result), "[columns]: ", " | ")) = 2
    /\ Len(LabelsOfLine(Val(Val(call).result), "[rows]: ", ";")) = 4

\* the nodes the loop of parse_survey has visited, and the question nodes
\* among them
Traversing == pc \in {"loop", "returned"}
Visited == SubSeq(Val(nodes), 1, pos - 1)
VisitedQuestionNodes == SelectSeq(Visited, IsQuestionNode)
HasDigit(raw) ==
    /\ raw # None
    /\ \E i \in 1..Len(Val(raw)) :
          Val(raw)[i] \in {"0", "1", "2", "3", "4", "5", "6", "7", "8", "9"}

\* C12: the i-th question node visited yields the question of index i and
\* display number i whether or not it has a topic id, and its topic_id is null
\* when its topic attribute is absent or holds no digit (and the number the
\* first digit run spells otherwise).
C12_UntopicedCounted ==
    Traversing =>
        /\ Len(loop.questions) = Len(VisitedQuestionNodes)
        /\ loop.display_index = Len(VisitedQuestionNodes)
        /\ \A i \in 1..Len(VisitedQuestionNodes) :
              /\ loop.questions[i].index = i
              /\ StrToInt(loop.questions[i].display_no) = i
              /\ ~HasDigit(VisitedQuestionNodes[i].topic)
                    => loop.questions[i].topic_id = None
              /\ HasDigit(VisitedQuestionNodes[i].topic)
                    => loop.questions[i].topic_id # None
        /\ Returned => Val(survey).questions = loop.questions

\* a question without topic id between two questions with one
C12_Witness ==
    /\ Returned
    /\ Len(Val(survey).questions) = 3
    /\ Val(survey).questions[1].topic_id = Some(1)
    /\ Val(survey).questions[2].topic_id = None
    /\ Val(survey).questions[2].index = 2
    /\ VisitedQuestionNodes[2].topic = Some(<<"q", "-">>)
    /\ Val(survey).questions[3].topic_id = Some(20)
    /\ Val(survey).questions[3].index = 3

\* the batch run is past its loop
BatchFinished == InBatch("finished")
UrlsOf(results) == [i \in 1..Len(results) |-> results[i].url]
Successes(results) == Len(SelectSeq(results, LAMBDA r : r.status = "success"))
\* the valid links of the input, each once, in the order of first occurrence
ValidInOrder(input) ==
    LET first == {i \in 1..Len(input) :
                     validate_url(input[i]) /\ \A j \in 1..(i - 1) : input[j] # input[i]}
        Nth(k) == CHOOSE i \in first : Cardinality({j \in first : j < i}) = k - 1
    IN  [k \in 1..Cardinality(first) |-> input[Nth(k)]]

ShownName(node) ==
    IF node.firstDiv # None /\ normalize_text(Val(node.firstDiv)) # <<>>
    THEN normalize_text(Val(node.firstDiv))
    ELSE normalize_text(node.text)
IsNamedDivider(node) == IsDividerNode(node) /\ ShownName(node) # <<>>
\* the section in force after the first k visited nodes
SectionAfter(k) ==
    LET named == {j \in 1..k : IsNamedDivider(Visited[j])}
    IN  IF named = {} THEN DEFAULT_SECTION
        ELSE ShownName(Visited[CHOOSE j \in named : \A m \in named : m <= j])
\* the position among the visited nodes of the i-th question node
PositionOfQuestion(i) ==
    CHOOSE k \in 1..Len(Visited) :
        /\ IsQuestionNode(Visited[k])
        /\ Count(SubSeq(Visited, 1, k), IsQuestionNode) = i
\* the default name and the names shown by the visited dividers, each once,
\* in the order of first appearance
NamesSoFar ==
    LET all == <<DEFAULT_SECTION>>
               \o [j \in 1..Len(Visited) |->
                     IF IsNamedDivider(Visited[j]) THEN ShownName(Visited[j])
                     ELSE DEFAULT_SECTION]
        first == {j \in 1..Len(all) : \A m \in 1..(j - 1) : all[m] # all[j]}
        Nth(k) == CHOOSE j \in first : Cardinality({m \in first : m < j}) = k - 1
    IN  [k \in 1..Cardinality(first) |-> all[Nth(k)]]

\* C14: at every point of the traversal each question recorded so far has as
\* section the name shown by the last named divider before its node, or the
\* default name when there is none; the current section is the one in force
\* after the nodes visited (a divider without a name does not change it); and
\* the ordered names are the default name and the divider names in order of
\* first appearance, each once.
C14_SectionOfQuestion ==
    Traversing =>
        /\ Len(loop.questions) = Len(VisitedQuestionNodes)
        /\ \A i \in 1..Len(loop.questions) :
              loop.questions[i].section = SectionAfter(PositionOfQuestion(i) - 1)
        /\ loop.current_section = SectionAfter(Len(Visited))
        /\ loop.ordered_names = NamesSoFar

\* divider "A", divider "A" again, a divider without a name, a question
C14_Witness ==
    /\ Returned
    /\ Len(Visited) = 4
    /\ IsNamedDivider(Visited[1]) /\ IsNamedDivider(Visited[2])
    /\ ShownName(Visited[1]) = ShownName(Visited[2])
    /\ IsDividerNode(Visited[3]) /\ ~IsNamedDivider(Visited[3])
    /\ IsQuestionNode(Visited[4])
    /\ Val(survey).questions[1].section = <<"A">>
    /\ loop.ordered_names = <<DEFAULT_SECTION, <<"A">>>>

\* the elements of a list, each once, in the order of first occurrence
FirstOccurrences(list) ==
    LET first == {j \in 1..Len(list) : \A m \in 1..(j - 1) : list[m] # list[j]}
        Nth(k) == CHOOSE j \in first : Cardinality({m \in first : m < j}) = k - 1
    IN  [k \in 1..Cardinality(first) |-> list[Nth(k)]]

LogicCalled ==
    /\ call # None
    /\ Val(call).fn = "extract_logic_notes"
    /\ Val(call).result # None
\* the explicit notes of the called node and the candidates of its topic
ExplicitNotes ==
    FirstOccurrences(AttrNotes(Val(call).node) \o StyleNotes(Val(call).node)
                     \o AllInputNotes(Val(call).node.inputs))
Candidates == TopicSignals(Val(call).topic_id, Val(call).global_signals)
FirstOf(list, n) == [i \in 1..(IF Len(list) < n THEN Len(list) ELSE n) |-> list[i]]

\* C15: (a) with explicit notes the result joins the first 8 of: the
\* explicit notes, each once in order of first occurrence, then, if there are
\* candidates, one note holding the first 3 of them; (b) without explicit
\* notes but with candidates it is the one "candidates but no rule" note
\* holding the first 4 of them; (c) with neither it is the sentinel; and with
\* a null topic_id no candidate appears in it.
C15_LogicNotesCases ==
    LogicCalled =>
        LET result == Val(Val(call).result)
            explicit == ExplicitNotes
            candidates == Candidates
            extra == IF candidates # <<>>
                     THEN << <<"[candidate script markers]: ">>
                             \o Join(<<";">>, FirstOccurrences(FirstOf(candidates, 3))) >>
                     ELSE <<>>
        IN  /\ explicit # <<>> =>
                  result = Join(<<";">>, FirstOf(explicit \o extra, 8))
            /\ explicit = <<>> /\ candidates # <<>> =>
                  result = <<"[candidate logic markers]: ">>
                           \o Join(<<";">>, FirstOccurrences(FirstOf(candidates, 4)))
                           \o <<" [no parsable jump rule]">>
            /\ explicit = <<>> /\ candidates = <<>> => result = NO_LOGIC
            /\ Val(call).topic_id = None =>
                  /\ candidates = <<>>
                  /\ ~InList("[candidate script markers]: ", result)
                  /\ ~InList("[candidate logic markers]: ", result)

\* seven explicit notes and five candidates: the eighth entry holds three
C15_Witness ==
    /\ LogicCalled
    /\ Len(ExplicitNotes) = 7
    /\ Len(Candidates) = 5
    /\ InList("[candidate script markers]: ", Val(Val(call).result))
    /\ Contains(Val(Val(call).result), <<"s", "3", "=">>)
    /\ ~Contains(Val(Val(call).result), <<"s", "4", "=">>)

\* the topic ids of the questions recorded under a section name
TopicIdsUnder(questions, name) ==
    {Val(questions[i].topic_id) : i \in
        {j \in 1..Len(questions) :
            questions[j].section = name /\ questions[j].topic_id # None}}

Written == call # None /\ Val(call).fn = "main" /\ Val(call).md # None
\* how often a question's heading line occurs in the markdown text
HeadingLines(md, q) ==
    Len(SelectSeq(Split(md, "\n"), LAMBDA l : l = <<"### Q">> \o q.display_no))
\* how often a question's number heads a row of the tables of the docx
TableRowsOf(docx, q) ==
    LET tables == SelectSeq(docx, LAMBDA b : b.kind = "table")
        rows == Flatten([i \in 1..Len(tables) |-> Tail(tables[i].rows)])
    IN  Len(SelectSeq(rows, LAMBDA r : r[1] = q.display_no))
RECURSIVE SumCounts(_)
SumCounts(items) ==
    IF items = <<>> THEN 0 ELSE Head(items).question_count + SumCounts(Tail(items))

\* C17: once the files of a returned Survey are written, each question has
\* exactly one heading line in the markdown text and one row in the tables of
\* the docx, and the question_count of the sections of the JSON payload add up
\* to its top-level question_count.
C17_NoQuestionLost ==
    Written =>
        /\ \A i \in 1..Len(Val(survey).questions) :
              /\ HeadingLines(Val(Val(call).md), Val(survey).questions[i]) = 1
              /\ TableRowsOf(Val(Val(call).docx), Val(survey).questions[i]) = 1
        /\ SumCounts(Val(Val(call).json).sections) = Val(Val(call).json).question_count

FetchReturned == InFetch("returned")
FetchRaised == InFetch("raised")
FailedAttempt(response) == response.raised \/ ~(response.status_code < 400)
\* what holds of fetch_html at every moment of a call
FetchInvariant ==
    (call # None /\ Val(call).fn = "fetch_html") =>
        LET f == Val(call)
            n == Len(f.responses)
            waits == IF f.at = "request" THEN n ELSE n - 1
        IN  /\ n <= f.retries + 1
            /\ \A i \in 1..(n - 1) : FailedAttempt(f.responses[i])
            /\ f.slept = [i \in 1..waits |-> 2 ^ (i - 1)]
            /\ Len(f.slept) <= f.retries
            /\ f.at = "request" => n = f.attempt /\ f.attempt <= f.retries
            /\ FetchReturned <=> (n > 0 /\ ~FailedAttempt(f.responses[n]))
            /\ FetchReturned =>
                  /\ f.result # None /\ f.error = None
                  /\ Val(f.result)[1] = f.responses[n].content
            /\ FetchRaised <=>
                  (n = f.retries + 1 /\ \A i \in 1..n : FailedAttempt(f.responses[i]))
            /\ FetchRaised =>
                  /\ f.error # None /\ f.result = None
                  /\ Val(f.error).code = EXIT_NETWORK

\* C18: a call of fetch_html makes at most retries+1 requests, all but the
\* last of them failed; it has slept 2^a seconds after each failed attempt a
\* followed by another one and never after the last; it has returned exactly
\* when the last response has a status below 400, with that response's text,
\* and has raised the error of code EXIT_NETWORK exactly when retries+1
\* attempts have failed; and every call comes to return or raise.
C18_FetchTerminates == [](FetchInvariant) /\ <>(FetchReturned \/ FetchRaised)

\* three failed attempts with waits of 1 and 2 seconds, then the error
C18_Witness ==
    /\ FetchRaised
    /\ Val(call).retries = 2
    /\ Len(Val(call).responses) = 3
    /\ Val(call).slept = <<1, 2>>
    /\ Val(Val(call).error).code = EXIT_NETWORK

====
